---- MODULE Spec2Model ----
(***************************************************************************)
(* Simulated timers of package simtest (src/timer.go) and the event loop   *)
(* of the simulated clock that owns them.                                  *)
(*                                                                         *)
(* SimTimer (its constructor, Reset, Stop and fire) is translated from     *)
(* src/timer.go.  The clock (SimClock: NewTimer, Tick, Stop and the loop   *)
(* that receives from events.add / events.remove / events.tick /           *)
(* events.stop) is not part of src/; it is modelled from spec.md sections  *)
(* 4.2, 4.3 and 5, with the four coordination channels unbuffered, so a    *)
(* send completes only when the loop is receiving.                         *)
(*                                                                         *)
(* Time is an integer number of duration units; the epoch is Epoch.        *)
(***************************************************************************)
EXTENDS Integers, Sequences, FiniteSets

\* ------------------------------------------------------------------ bounds
MaxTime == 2        \* Tick is not issued beyond this virtual time
MaxDur  == 2        \* largest duration argument

\* ------------------------------------------------------- program constants
Epoch == 0          \* the time the clock is created with
ChanCap == 1        \* make(chan time.Time, 1)

Timers    == {1, 2}                 \* the timers a run may create
Durations == (-1)..MaxDur           \* time.Duration is signed
MinTime   == Epoch - 1
Deadlines == MinTime..(MaxTime + 1)

VARIABLES
    now,        \* the clock's virtual time
    live,       \* the loop's set of registered timers
    loopPc,     \* "idle" (receiving), "tick", "fireLock", "fireSend", "stopped"
    todo,       \* timers the running tick has still to evaluate
    cur,        \* the timer whose fire the loop is in
    drvPc,      \* the goroutine that drives the clock: "ready" or "tickWait"
    timers,     \* timer id -> SimTimer fields, or NoTimer
    callPc,     \* the goroutine that calls the timers' methods:
                \* "idle", "stopSend", "stopSet" or "fireSend"
    callT,      \* the timer of its call in progress
    callArg,    \* the argument of its fire call in progress
    sent,       \* history: values ever sent on each timer's channel
    stopTrue,   \* history: Stop calls on each timer that returned true
    due,        \* history: per timer, virtual time at its creation + duration;
                \* Reset, once it has returned true for the timer
    moved,      \* history: timers whose deadline a Reset changed while the
                \* loop was processing the tick in progress
    removed,    \* history: remove messages the loop received, per timer
    last        \* history: the call the last step completed, with its result
                \* (NoCall when the step completed none)

vars == <<now, live, loopPc, todo, cur, drvPc, timers, callPc, callT, callArg,
          sent, stopTrue, due, moved, removed, last>>

hist == <<sent, stopTrue, due, moved, removed>>

NoTimer == [made |-> FALSE]

made == {t \in Timers : timers[t].made}

NoCall == [op |-> "none", t |-> 0, ret |-> FALSE]

WasReset == MinTime - 10

\* the record of the call on timer t that this step completes
Done(op, t, ret) == [op |-> op, t |-> t, ret |-> ret]

\* ---------------------------------------------------------------- SimTimer

\* faulty variant: the channel is created holding the deadline
newSimTimerPrimed(deadline) ==
    [made |-> TRUE, ch |-> <<deadline>>, mu |-> "free", stopped |-> FALSE,
     deadline |-> deadline]

\* faulty variant: the deadline argument is dropped for the epoch
newSimTimerAtEpoch(deadline) ==
    [made |-> TRUE, ch |-> <<>>, mu |-> "free", stopped |-> FALSE, deadline |-> Epoch]

\* newSimTimer: an empty channel of capacity 1, a free mutex, stopped = false
newSimTimer(deadline) ==
    [made |-> TRUE, ch |-> <<>>, mu |-> "free", stopped |-> FALSE, deadline |-> deadline]

\* faulty variant: the deadline is replaced by epoch + d
SetDeadline(deadline, d) == Epoch + d

\* timer.deadline.Add(d)
AddDeadline(deadline, d) == deadline + d

\* faulty variant: now.After(timer.deadline) alone
passedDeadlineStrict(at, deadline) == at > deadline

\* faulty variant: due one unit early
passedDeadlineEarly(at, deadline) == at + 1 >= deadline

\* now.After(timer.deadline) || now.Equal(timer.deadline)
passedDeadline(at, deadline) == at > deadline \/ at = deadline

\* faulty variant: fire without its stopped check
fireRefusesLive(tm, at) == ~(at >= tm.deadline)

\* the two early returns of fire
fireRefuses(tm, at) == tm.stopped \/ ~passedDeadline(at, tm.deadline)

\* the early return of Reset and of Stop
alreadyStopped(tm) == tm.stopped

\* Reset(d): under the lock; false when stopped, else deadline += d
Reset(t, d) ==
    /\ t \in made
    /\ callPc = "idle"
    /\ timers[t].mu = "free"
    /\ AddDeadline(timers[t].deadline, d) \in Deadlines
    /\ IF alreadyStopped(timers[t])
         THEN /\ last' = Done("Reset", t, FALSE)
              /\ UNCHANGED <<timers, due, moved>>
         ELSE /\ timers' = [timers EXCEPT ![t].deadline = AddDeadline(@, d)]
              /\ due' = [due EXCEPT ![t] = WasReset]
              /\ moved' = IF loopPc \in {"tick", "fireLock", "fireSend"}
                             THEN moved \cup {t} ELSE moved
              /\ last' = Done("Reset", t, TRUE)
    /\ UNCHANGED <<now, live, loopPc, todo, cur, drvPc, callPc, callT, callArg,
                   sent, stopTrue, removed>>

\* faulty variant: Stop returns true for a live timer and cancels nothing
StopEnterNoCancel(t) ==
    /\ t \in made
    /\ callPc = "idle"
    /\ timers[t].mu = "free"
    /\ IF timers[t].stopped
         THEN /\ last' = [op |-> "Stop", t |-> t, ret |-> FALSE]
              /\ UNCHANGED stopTrue
         ELSE /\ last' = [op |-> "Stop", t |-> t, ret |-> TRUE]
              /\ stopTrue' = [stopTrue EXCEPT ![t] = @ + 1]
    /\ UNCHANGED <<now, live, loopPc, todo, cur, drvPc, timers, callPc, callT,
                   callArg, sent, due, moved, removed>>

\* Stop, lines 75-80: take the lock; return false when already stopped
StopEnter(t) ==
    /\ t \in made
    /\ callPc = "idle"
    /\ timers[t].mu = "free"
    /\ IF alreadyStopped(timers[t])
         THEN /\ last' = Done("Stop", t, FALSE)
              /\ UNCHANGED <<timers, callPc, callT>>
         ELSE /\ timers' = [timers EXCEPT ![t].mu = "caller"]
              /\ callPc' = "stopSend"
              /\ callT' = t
              /\ last' = NoCall
    /\ UNCHANGED <<now, live, loopPc, todo, cur, drvPc, callArg, hist>>

\* the loop's handling of a remove message: erase from the live set
loopRemove(set, t) == set \ {t}

\* faulty variant: Stop goes on without sending the remove message
StopSendSkipped ==
    /\ callPc = "stopSend"
    /\ callPc' = "stopSet"
    /\ last' = NoCall
    /\ UNCHANGED <<now, live, loopPc, todo, cur, drvPc, timers, callT, callArg, hist>>

\* Stop, line 82: timer.events.remove <- timer, with the lock held; the send
\* completes when the loop receives it, and the loop erases the timer
StopSend ==
    /\ callPc = "stopSend"
    /\ loopPc = "idle"
    /\ live' = loopRemove(live, callT)
    /\ removed' = [removed EXCEPT ![callT] = @ + 1]
    /\ callPc' = "stopSet"
    /\ last' = NoCall
    /\ UNCHANGED <<now, loopPc, todo, cur, drvPc, timers, callT, callArg, sent, stopTrue,
                   due, moved>>

\* faulty variant: Stop returns true and leaves stopped false
StopSetKeepsFlag ==
    /\ callPc = "stopSet"
    /\ timers' = [timers EXCEPT ![callT].mu = "free"]
    /\ callPc' = "idle"
    /\ callT' = 0
    /\ stopTrue' = [stopTrue EXCEPT ![callT] = @ + 1]
    /\ last' = [op |-> "Stop", t |-> callT, ret |-> TRUE]
    /\ UNCHANGED <<now, live, loopPc, todo, cur, drvPc, callArg, sent, due, moved, removed>>

\* Stop, lines 83-85: stopped = true, return true, unlock
StopSet ==
    /\ callPc = "stopSet"
    /\ timers' = [timers EXCEPT ![callT].stopped = TRUE, ![callT].mu = "free"]
    /\ callPc' = "idle"
    /\ callT' = 0
    /\ stopTrue' = [stopTrue EXCEPT ![callT] = @ + 1]
    /\ last' = Done("Stop", callT, TRUE)
    /\ UNCHANGED <<now, live, loopPc, todo, cur, drvPc, callArg, sent, due, moved, removed>>

\* fire(at) called on the timer directly, as a test in the package can:
\* lines 92-105
FireCall(t, at) ==
    /\ t \in made
    /\ callPc = "idle"
    /\ timers[t].mu = "free"
    /\ IF fireRefuses(timers[t], at)
         THEN /\ last' = Done("fire", t, FALSE)
              /\ UNCHANGED <<timers, callPc, callT, callArg>>
         ELSE /\ timers' = [timers EXCEPT ![t].stopped = TRUE, ![t].mu = "caller"]
              /\ callPc' = "fireSend"
              /\ callT' = t
              /\ callArg' = at
              /\ last' = NoCall
    /\ UNCHANGED <<now, live, loopPc, todo, cur, drvPc, sent, stopTrue, due, moved, removed>>

\* fire called directly, lines 106-108: timer.ch <- now, its argument
FireCallSend ==
    /\ callPc = "fireSend"
    /\ Len(timers[callT].ch) < ChanCap
    /\ timers' = [timers EXCEPT ![callT].ch = Append(@, callArg), ![callT].mu = "free"]
    /\ sent' = [sent EXCEPT ![callT] = @ + 1]
    /\ callPc' = "idle"
    /\ callT' = 0
    /\ callArg' = 0
    /\ last' = Done("fire", callT, TRUE)
    /\ UNCHANGED <<now, live, loopPc, todo, cur, drvPc, stopTrue, due, moved, removed>>

\* a receive from the timer's channel by its user
Recv(t) ==
    /\ t \in made
    /\ timers[t].ch # <<>>
    /\ timers' = [timers EXCEPT ![t].ch = Tail(@)]
    /\ last' = NoCall
    /\ UNCHANGED <<now, live, loopPc, todo, cur, drvPc, callPc, callT, callArg, hist>>

\* ------------------------------------------------------------------- clock

Now == now

\* NewTimer(d): deadline = now + d, registered with the loop by an add message
NewTimer(d) ==
    /\ drvPc = "ready"
    /\ loopPc = "idle"
    /\ made # Timers
    /\ Now + d \in Deadlines
    /\ LET t == CHOOSE x \in Timers \ made : \A y \in Timers \ made : x <= y
       IN /\ timers' = [timers EXCEPT ![t] = newSimTimer(Now + d)]
          /\ live' = live \cup {t}
          /\ due' = [due EXCEPT ![t] = Now + d]
          /\ last' = Done("NewTimer", t, TRUE)
    /\ UNCHANGED <<now, loopPc, todo, cur, drvPc, callPc, callT, callArg, sent, stopTrue,
                   moved, removed>>

\* Tick(d): the loop receives the tick message and advances now by d; the
\* caller waits until the loop has evaluated every live timer
TickSend(d) ==
    /\ drvPc = "ready"
    /\ loopPc = "idle"
    /\ now + d \in MinTime..MaxTime
    /\ now' = now + d
    /\ todo' = live
    /\ loopPc' = "tick"
    /\ drvPc' = "tickWait"
    /\ last' = NoCall
    /\ UNCHANGED <<live, cur, timers, callPc, callT, callArg, hist>>

\* the loop turns to one of the timers left, in no particular order
LoopPick(t) ==
    /\ loopPc = "tick"
    /\ t \in todo
    /\ cur' = t
    /\ loopPc' = "fireLock"
    /\ last' = NoCall
    /\ UNCHANGED <<now, live, todo, drvPc, timers, callPc, callT, callArg, hist>>

\* faulty variant: stopped is set before the deadline is looked at
FireEnterMarksStopped ==
    /\ loopPc = "fireLock"
    /\ timers[cur].mu = "free"
    /\ IF timers[cur].stopped \/ ~(now >= timers[cur].deadline)
         THEN /\ loopPc' = "tick"
              /\ todo' = todo \ {cur}
              /\ cur' = 0
              /\ last' = [op |-> "fire", t |-> cur, ret |-> FALSE]
              /\ timers' = [timers EXCEPT ![cur].stopped = TRUE]
         ELSE /\ timers' = [timers EXCEPT ![cur].stopped = TRUE, ![cur].mu = "loop"]
              /\ loopPc' = "fireSend"
              /\ last' = NoCall
              /\ UNCHANGED <<todo, cur>>
    /\ UNCHANGED <<now, live, drvPc, callPc, callT, callArg, hist>>

\* fire, lines 92-105, called by the loop with its now: blocks until the
\* lock is free; returns false when stopped or not yet due, and then the
\* timer stays registered; otherwise sets stopped and goes on to the send
FireEnter ==
    /\ loopPc = "fireLock"
    /\ timers[cur].mu = "free"
    /\ IF fireRefuses(timers[cur], now)
         THEN /\ loopPc' = "tick"
              /\ todo' = todo \ {cur}
              /\ cur' = 0
              /\ last' = Done("fire", cur, FALSE)
              /\ UNCHANGED timers
         ELSE /\ timers' = [timers EXCEPT ![cur].stopped = TRUE, ![cur].mu = "loop"]
              /\ loopPc' = "fireSend"
              /\ last' = NoCall
              /\ UNCHANGED <<todo, cur>>
    /\ UNCHANGED <<now, live, drvPc, callPc, callT, callArg, hist>>

\* faulty variant: the loop ends the tick's evaluation at the first firing
FireSendEndsTick ==
    /\ loopPc = "fireSend"
    /\ Len(timers[cur].ch) < ChanCap
    /\ timers' = [timers EXCEPT ![cur].ch = Append(@, now), ![cur].mu = "free"]
    /\ sent' = [sent EXCEPT ![cur] = @ + 1]
    /\ live' = live \ {cur}
    /\ todo' = {}
    /\ loopPc' = "tick"
    /\ cur' = 0
    /\ last' = [op |-> "fire", t |-> cur, ret |-> TRUE]
    /\ UNCHANGED <<now, drvPc, callPc, callT, callArg, stopTrue, due, moved, removed>>

\* fire, lines 106-108: timer.ch <- now, blocking while the channel is full;
\* fire returned true, so the loop erases the timer in the same tick
FireSend ==
    /\ loopPc = "fireSend"
    /\ Len(timers[cur].ch) < ChanCap
    /\ timers' = [timers EXCEPT ![cur].ch = Append(@, now), ![cur].mu = "free"]
    /\ sent' = [sent EXCEPT ![cur] = @ + 1]
    /\ live' = loopRemove(live, cur)
    /\ todo' = todo \ {cur}
    /\ loopPc' = "tick"
    /\ cur' = 0
    /\ last' = Done("fire", cur, TRUE)
    /\ UNCHANGED <<now, drvPc, callPc, callT, callArg, stopTrue, due, moved, removed>>

\* every live timer has been evaluated: Tick returns
TickDone ==
    /\ loopPc = "tick"
    /\ todo = {}
    /\ loopPc' = "idle"
    /\ drvPc' = "ready"
    /\ moved' = {}
    /\ last' = Done("Tick", 0, TRUE)
    /\ UNCHANGED <<now, live, todo, cur, timers, callPc, callT, callArg, sent, stopTrue, due,
                   removed>>

\* Clock.Stop(): the loop receives the stop message and terminates
ClockStop ==
    /\ drvPc = "ready"
    /\ loopPc = "idle"
    /\ loopPc' = "stopped"
    /\ last' = Done("ClockStop", 0, TRUE)
    /\ UNCHANGED <<now, live, todo, cur, drvPc, timers, callPc, callT, callArg, hist>>

\* ------------------------------------------------------------ specification

Init ==
    /\ now = Epoch
    /\ live = {}
    /\ loopPc = "idle"
    /\ todo = {}
    /\ cur = 0
    /\ drvPc = "ready"
    /\ timers = [t \in Timers |-> NoTimer]
    /\ callPc = "idle"
    /\ callT = 0
    /\ callArg = 0
    /\ sent = [t \in Timers |-> 0]
    /\ stopTrue = [t \in Timers |-> 0]
    /\ due = [t \in Timers |-> 0]
    /\ moved = {}
    /\ removed = [t \in Timers |-> 0]
    /\ last = NoCall

Next ==
    \/ \E d \in Durations : NewTimer(d)
    \/ \E d \in Durations : TickSend(d)
    \/ \E t \in Timers : LoopPick(t)
    \/ FireEnter
    \/ FireSend
    \/ TickDone
    \/ \E t \in Timers, d \in Durations : Reset(t, d)
    \/ \E t \in Timers : StopEnter(t)
    \/ StopSend
    \/ StopSet
    \/ \E t \in Timers : Recv(t)

Spec == Init /\ [][Next]_vars

\* the timers driven directly: no Tick, and fire called by the goroutine that
\* calls Reset and Stop, the loop receiving the add and remove messages
NextFire ==
    \/ \E d \in Durations : NewTimer(d)
    \/ \E t \in Timers, d \in Durations : Reset(t, d)
    \/ \E t \in Timers : StopEnter(t)
    \/ StopSend
    \/ StopSet
    \/ \E t \in Timers, at \in MinTime..MaxTime : FireCall(t, at)
    \/ FireCallSend
    \/ \E t \in Timers : Recv(t)

SpecFire == Init /\ [][NextFire]_vars

\* the same program with the clock stopped at some point
NextStop ==
    \/ Next
    \/ ClockStop

SpecStop == Init /\ [][NextStop]_vars

\* ------------------------------------------------------------------ claims

\* a fire call that has set stopped and has not yet sent
Firing(t) ==
    \/ loopPc = "fireSend" /\ cur = t
    \/ callPc = "fireSend" /\ callT = t

\* a Stop call on t that has passed its stopped check and has not returned
Stopping(t) == callPc \in {"stopSend", "stopSet"} /\ callT = t

\* the loop is processing a tick message
InTick == loopPc \in {"tick", "fireLock", "fireSend"}

\* C1: a timer delivers at most once. Under any interleaving of Tick, Reset,
\* Stop and the fire calls at most one value is ever sent on its channel; stopped is
\* true exactly when one fire or one Stop has succeeded (or a fire is between
\* setting it and its send), never both, and stopped never returns to false.
C1_AtMostOnce ==
    /\ [](\A t \in made :
            /\ sent[t] <= 1
            /\ sent[t] + stopTrue[t] <= 1
            /\ timers[t].stopped <=> (sent[t] + stopTrue[t] = 1 \/ Firing(t)))
    /\ [][\A t \in made : timers[t].stopped => timers'[t].stopped]_vars

\* a timer fired by one Tick, and a later Tick has returned at a later
\* virtual time
C1_Witness ==
    \E t \in made :
        /\ sent[t] = 1
        /\ timers[t].ch # <<>>
        /\ last.op = "Tick"
        /\ now > timers[t].ch[1]

\* C2: for a timer that was never Reset and never Stopped, a value is sent
\* only at a virtual time at or after creation time + d, at most one value is
\* sent, and when a Tick returns at a virtual time at or after creation
\* time + d exactly one value has been sent.
Untouched(t) == due[t] # WasReset /\ stopTrue[t] = 0 /\ ~Stopping(t)

C2_ExactlyOnce ==
    /\ [](\A t \in made : Untouched(t) =>
            /\ sent[t] <= 1
            /\ (last.op = "Tick" /\ now >= due[t]) => sent[t] = 1)
    /\ [][\A t \in made : (Untouched(t) /\ sent'[t] # sent[t]) => now' >= due[t]]_vars

\* a Tick has returned exactly at creation time + 2 of an untouched timer,
\* which has delivered
C2_Witness ==
    \E t \in made :
        /\ Untouched(t)
        /\ last.op = "Tick"
        /\ due[t] = Epoch + 2
        /\ now = due[t]
        /\ sent[t] = 1

\* C3: when Stop holds the lock of a timer and the loop, processing a tick
\* that reaches the timer's deadline, is in fire on that timer, one of the two
\* wins: while neither has (no value sent, no Stop returned true) the next
\* step of Stop or of fire can be taken.
C3_OneWins ==
    \A t \in made :
        (/\ Stopping(t)
         /\ loopPc = "fireLock" /\ cur = t
         /\ passedDeadline(now, timers[t].deadline)
         /\ sent[t] = 0 /\ stopTrue[t] = 0)
            => ENABLED (StopSend \/ StopSet \/ FireEnter)

\* C3, the half that holds: no timer has both a delivered value and a Stop
\* that returned true; when a Stop returns, exactly one of the two has
\* happened, and it returns true only when no value was delivered.
C3_StopRace ==
    \A t \in made :
        /\ ~(sent[t] >= 1 /\ stopTrue[t] >= 1)
        /\ (last.op = "Stop" /\ last.t = t) =>
              /\ sent[t] + stopTrue[t] = 1
              /\ last.ret => sent[t] = 0

\* Stop ran while the loop was processing the tick that fired the timer, and
\* returned false
C3_Witness ==
    \E t \in made :
        /\ InTick
        /\ last = Done("Stop", t, FALSE)
        /\ sent[t] = 1
        /\ stopTrue[t] = 0

\* C4: no state has Stop blocked on the send of the remove message, holding
\* the timer's lock, while the loop is blocked in fire on that lock.
C4_NoDeadlock ==
    ~ \E t \in made :
        /\ callPc = "stopSend" /\ callT = t
        /\ loopPc = "fireLock" /\ cur = t

\* C5: once Stop has returned true for a timer no value is ever sent on its
\* channel: the channel is and stays empty, whatever Ticks follow.
C5_StoppedNeverDelivers ==
    \A t \in made :
        stopTrue[t] >= 1 => (sent[t] = 0 /\ timers[t].ch = <<>>)

\* a Tick has returned at or after the deadline of a timer whose Stop had
\* returned true
C5_Witness ==
    \E t \in made :
        /\ stopTrue[t] = 1
        /\ last.op = "Tick"
        /\ now >= timers[t].deadline

\* C6: a value in a timer's channel is at or after the timer's deadline, and
\* the value the loop sends is its virtual time, which is the virtual time
\* when the Tick returns.
C6_DeadlineAccuracy ==
    /\ [](\A t \in made : timers[t].ch # <<>> =>
            /\ Len(timers[t].ch) = 1
            /\ timers[t].ch[1] >= timers[t].deadline)
    /\ [][\A t \in made : sent'[t] # sent[t] =>
            /\ timers'[t].ch[Len(timers'[t].ch)] = now'
            /\ (now' = timers'[t].deadline <=> timers'[t].ch[1] = timers[t].deadline)]_vars
    /\ [][InTick => now' = now]_vars

\* one timer delivered its deadline exactly, another a later time
C6_Witness ==
    \E t, u \in made :
        /\ timers[t].ch = <<timers[t].deadline>>
        /\ timers[u].ch # <<>>
        /\ timers[u].ch[1] > timers[u].deadline

C8_ResetFromNow ==
    [][\A t \in Timers, d \in 1..MaxDur :
          (Reset(t, d) /\ last'.ret /\ timers[t].deadline >= now) =>
              \A at \in MinTime..(MaxTime + MaxDur) :
                  ~fireRefuses(timers'[t], at) <=> at >= now + d]_vars

\* C9: Reset, Stop and fire on a stopped timer return false and change
\* nothing: not the timer's fields, not the live set, and no remove message
\* is on its way; the deadline of a stopped timer never changes.
C9_StoppedNoOp ==
    /\ [][\A t \in made : timers[t].stopped =>
            /\ timers'[t].deadline = timers[t].deadline
            /\ ((\E d \in Durations : Reset(t, d))
                  \/ StopEnter(t)
                  \/ (\E at \in MinTime..MaxTime : FireCall(t, at))) =>
                  /\ last'.t = t /\ last'.ret = FALSE
                  /\ timers' = timers
                  /\ live' = live
                  /\ callPc' = "idle"
                  /\ sent' = sent /\ stopTrue' = stopTrue]_vars
    /\ [](\A t \in made : (last.t = t /\ last.op \in {"Reset", "Stop"} /\ ~last.ret)
                              => timers[t].stopped)

\* Stop returned false on a fired timer whose value is still in the channel
C9_Witness ==
    \E t \in made :
        /\ last = Done("Stop", t, FALSE)
        /\ sent[t] = 1
        /\ timers[t].ch # <<>>

\* C10: the virtual time changes only when the loop receives a tick message,
\* a value is sent only by the loop while it processes one, no NewTimer,
\* Reset or Stop changes the virtual time or sends a value, and a timer just
\* created has an empty channel even when its deadline is already reached.
C10_OnlyTick ==
    /\ [][/\ now' # now => (drvPc = "ready" /\ drvPc' = "tickWait" /\ loopPc' = "tick")
          /\ sent' # sent => (loopPc = "fireSend" /\ drvPc = "tickWait")
          /\ last'.op \in {"NewTimer", "Reset", "Stop"} =>
                /\ now' = now
                /\ sent' = sent
                /\ \A t \in made : timers'[t].ch = timers[t].ch]_vars
    /\ [](last.op = "NewTimer" => (timers[last.t].ch = <<>> /\ sent[last.t] = 0))

\* a timer was created with its deadline already reached and nothing is in
\* its channel
C10_Witness ==
    \E t \in made :
        /\ last = Done("NewTimer", t, TRUE)
        /\ now >= timers[t].deadline
        /\ timers[t].ch = <<>>

C12_AllFire ==
    /\ []((/\ last.op = "Tick"
           /\ \A t \in made : Untouched(t) /\ now >= due[t])
              => \A t \in made : sent[t] = 1 /\ timers[t].stopped)
    /\ [](InTick =>
            \A t \in made :
                (Untouched(t) /\ now >= due[t] /\ sent[t] = 0)
                    => (t \in todo \/ Firing(t)))
    /\ [][\A t \in made : sent'[t] # sent[t] =>
            \A u \in Timers \ {t} : timers'[u] = timers[u] /\ sent'[u] = sent[u]]_vars

\* one Tick has made both timers due, the second with the shorter duration;
\* the loop has fired the second and has still to evaluate the first
C12_Witness ==
    /\ made = Timers
    /\ \A t \in Timers : Untouched(t) /\ now >= due[t]
    /\ due[2] < due[1]
    /\ loopPc = "tick"
    /\ todo = {1}
    /\ sent[1] = 0
    /\ sent[2] = 1
    /\ timers[2].ch = <<now>>

\* C13: Now() never decreases: no step takes the virtual time to an earlier
\* time, whatever the operation and its duration argument.
C13_NoTimeTravel ==
    [][Now' >= Now]_vars

\* C14: NewTimer(d) creates one new timer whose deadline is the virtual time
\* at the call plus d, with stopped = false, a free lock and an empty
\* channel, registers it, and changes neither the virtual time nor any other
\* timer.
C14_NewTimerDeadline ==
    [][\A d \in Durations : NewTimer(d) =>
          /\ last'.op = "NewTimer"
          /\ last'.t \notin made
          /\ made' = made \cup {last'.t}
          /\ live' = live \cup {last'.t}
          /\ timers'[last'.t].deadline = now + d
          /\ timers'[last'.t].stopped = FALSE
          /\ timers'[last'.t].ch = <<>>
          /\ timers'[last'.t].mu = "free"
          /\ \A u \in Timers \ {last'.t} : timers'[u] = timers[u]
          /\ now' = now]_vars

\* a timer has just been created with duration 1 after the virtual time
\* advanced by 2 from the epoch
C14_Witness ==
    \E t \in made :
        /\ last = Done("NewTimer", t, TRUE)
        /\ now = Epoch + 2
        /\ timers[t].deadline = Epoch + 2 + 1
        /\ ~timers[t].stopped
        /\ timers[t].ch = <<>>
        /\ t \in live

\* C15: when the loop calls fire on a timer that is not stopped at a virtual
\* time strictly before its deadline, fire returns false and changes nothing
\* of the timer (stopped stays false, the deadline is the same, the channel
\* stays empty, the lock is free again) and the timer stays in the live set;
\* a timer that is neither stopped nor being stopped is always in the live
\* set, and the next tick evaluates every timer of the live set.
C15_NotDueNoEffect ==
    /\ [][(/\ FireEnter
           /\ ~timers[cur].stopped
           /\ now < timers[cur].deadline) =>
              /\ last' = Done("fire", cur, FALSE)
              /\ timers' = timers
              /\ ~timers'[cur].stopped
              /\ timers'[cur].ch = <<>>
              /\ timers'[cur].mu = "free"
              /\ sent' = sent
              /\ live' = live
              /\ cur \in live']_vars
    /\ [](\A t \in made : (~timers[t].stopped /\ ~Stopping(t)) => t \in live)
    /\ [][(\E d \in Durations : TickSend(d)) => todo' = live]_vars

\* fire has just refused a timer one unit before its deadline, after the
\* virtual time advanced; the timer is as it was and still registered
C15_Witness ==
    \E t \in live :
        /\ last = Done("fire", t, FALSE)
        /\ ~timers[t].stopped
        /\ now > Epoch
        /\ now + 1 = timers[t].deadline
        /\ timers[t].ch = <<>>

\* C16: a timer's channel never holds more than its capacity of one value,
\* and holds only a value that was sent; whenever a fire has set stopped and
\* is at its send, nothing was ever sent on the channel before, so the
\* channel is empty whether or not anybody received, and the loop's send can
\* complete at once.
C16_SendNeverBlocks ==
    /\ \A t \in made :
          /\ Len(timers[t].ch) <= ChanCap
          /\ Len(timers[t].ch) <= sent[t]
          /\ Firing(t) => (sent[t] = 0 /\ timers[t].ch = <<>>)
    /\ loopPc = "fireSend" => (timers[cur].mu = "loop" /\ ENABLED FireSend)

\* the loop is at the send of one timer, holding its lock, while the value
\* of the other timer is still in its channel, unreceived
C16_Witness ==
    \E t, u \in made :
        /\ t # u
        /\ loopPc = "fireSend" /\ cur = t
        /\ timers[t].mu = "loop"
        /\ timers[t].ch = <<>>
        /\ timers[u].ch # <<>>

\* C17: whenever the loop is idle no timer of the live set is fired or
\* stopped (so none is left waiting for a remove message); when a Tick
\* returns no timer that fired is in the live set; a timer whose Stop
\* returned true is not in the live set; the loop has received exactly one
\* remove message for each Stop that returned true or has passed its send,
\* and a firing sends none.
C17_RegistryConsistent ==
    /\ [](loopPc = "idle" => \A t \in live : t \in made /\ ~timers[t].stopped)
    /\ [](last.op = "Tick" => \A t \in made : sent[t] >= 1 => t \notin live)
    /\ [](\A t \in made :
            /\ stopTrue[t] >= 1 => t \notin live
            /\ removed[t] = stopTrue[t] + (IF callPc = "stopSet" /\ callT = t THEN 1 ELSE 0)
            /\ sent[t] >= 1 => removed[t] = 0)
    /\ [][\A t \in made : sent'[t] # sent[t] => (removed' = removed /\ t \notin live')]_vars

\* a Tick has returned after it fired one timer, a Stop on the other timer
\* had returned true, and the live set is empty
C17_Witness ==
    \E t, u \in made :
        /\ last.op = "Tick"
        /\ sent[t] = 1 /\ removed[t] = 0
        /\ stopTrue[u] = 1 /\ removed[u] = 1
        /\ live = {}

\* C18: Stop on a timer returns also when the clock has been stopped: when
\* Stop holds the timer's lock and is at the send of its remove message
\* while the loop has terminated, the send can complete.
C18_StopReturns ==
    \A t \in made :
        (/\ callPc = "stopSend" /\ callT = t
         /\ timers[t].mu = "caller"
         /\ loopPc = "stopped")
            => ENABLED StopSend

====
